---- MODULE Spec2Model ----
(***************************************************************************)
(* FrontendModem (src/bridge/src/modem/frontend-modem/index.js): the       *)
(* bridge between a CDP-style debugger frontend and a `behavior.*`         *)
(* backend.  One modem and one session store are modelled.                 *)
(*                                                                         *)
(* JavaScript strings are sequences of tokens: a token is one character    *)
(* ("@", ".", "/", ":", a digit, ...) or an atom standing for a run of     *)
(* characters that no operation of the program looks into ("a.lua",        *)
(* "Debugger", "file:///", the marker "hostvm").                           *)
(***************************************************************************)
EXTENDS Integers, Sequences, FiniteSets, TLC

VARIABLES
    frontend,            \* messages emitted on 'send-frontend', in order
    backend,             \* messages emitted on 'send-backend', in order
    scriptParsedFiles,   \* store.scriptParsedFiles: the ids set to true
    frameScriptIdCount,  \* store.frameScriptIdCount
    activeBreakpoints,   \* store.activeBreakpoints
    debuggerPauseData,   \* store.debuggerPauseData
    calls,               \* one record per call of a modem method, in call order; a
                         \* restorePause keeps the payload as it was passed
                         \* (payload) and the payload object as it is (data)
    frontendBy,          \* history: for each frontend message, who emitted it
    backendBy            \* history: for each backend message, the call that emitted it

vars == <<frontend, backend, scriptParsedFiles, frameScriptIdCount,
          activeBreakpoints, debuggerPauseData, calls, frontendBy, backendBy>>

store == <<scriptParsedFiles, frameScriptIdCount, activeBreakpoints, debuggerPauseData>>

----------------------------------------------------------------------------
(* Bounds *)

MaxCalls == 2
MaxStack == 3

----------------------------------------------------------------------------
(* JavaScript values and string primitives *)

\* undefined, null, {} and the string '__IGNORE_RETURN__'; objects are records,
\* arrays are sequences
Undefined == [type |-> "undefined"]
Null == [type |-> "null"]
EmptyObject == [type |-> "object", keys |-> {}]
IGNORE_RETURN == [type |-> "string", value |-> "__IGNORE_RETURN__"]

RECURSIVE IndexOf(_, _, _)
\* s.indexOf(pat) searched from position i (1-based); 0 when pat does not occur
IndexOf(s, pat, i) ==
    IF i + Len(pat) - 1 > Len(s) THEN 0
    ELSE IF SubSeq(s, i, i + Len(pat) - 1) = pat THEN i
    ELSE IndexOf(s, pat, i + 1)

\* s.includes(pat)
Includes(s, pat) == IndexOf(s, pat, 1) # 0

\* s.startsWith(pat)
StartsWith(s, pat) == Len(s) >= Len(pat) /\ SubSeq(s, 1, Len(pat)) = pat

\* s.replace(pat, rep) with a string pattern: the first occurrence only
Replace(s, pat, rep) ==
    LET i == IndexOf(s, pat, 1)
    IN  IF i = 0 THEN s
        ELSE SubSeq(s, 1, i - 1) \o rep \o SubSeq(s, i + Len(pat), Len(s))

RECURSIVE Split(_, _)
\* s.split(sep) for a one-character separator: the segments between separators
Split(s, sep) ==
    LET i == IndexOf(s, <<sep>>, 1)
    IN  IF i = 0 THEN <<s>>
        ELSE <<SubSeq(s, 1, i - 1)>> \o Split(SubSeq(s, i + 1, Len(s)), sep)

Digit == <<"0", "1", "2", "3", "4", "5", "6", "7", "8", "9">>

RECURSIVE NatToString(_)
NatToString(n) ==
    IF n < 10 THEN <<Digit[n + 1]>>
    ELSE NatToString(n \div 10) \o <<Digit[(n % 10) + 1]>>

\* `${n}` / JSON.stringify(n) of an integer
NumberToString(n) == IF n < 0 THEN <<"-">> \o NatToString(-n) ELSE NatToString(n)

----------------------------------------------------------------------------
(* The handler table `domains` (./domains) and the requests of the frontend *)

\* domains[domain] is the set of actions that have a handler
domains ==
    (<<"Debugger">> :> {<<"resume">>, <<"enable">>}) @@
    (<<"Runtime">> :> {<<"enable">>})

\* what a handler may return; a handler may also throw
HandlerResults == {Undefined, Null, IGNORE_RETURN, [type |-> "object", keys |-> {"value"}]}
HandlerOutcomes == [kind : {"return"}, value : HandlerResults] \cup {[kind |-> "throw"]}

\* a notification a handler sends on its own while it runs
HandlerNotification == [method |-> "Handler.notified", params |-> EmptyObject]

RequestIds == {1, 2}
Methods ==
    { <<"Debugger", ".", "resume">>,
      <<"Debugger", ".", "resume", ".", "extra">>,
      <<"Debugger", ".", "nope">>,
      <<"Nope", ".", "resume">>,
      <<"Debugger">> }
Requests == [id : RequestIds, method : Methods]

----------------------------------------------------------------------------
(* deliver *)

NoFunc(v) == [kind |-> v.type]

\* const [domain, prop] = msg.method.split('.'); func = domains[domain][prop],
\* null when the lookup throws (domains[domain] is undefined)
LookupHandler(method) ==
    LET parts == Split(method, ".")
        domain == parts[1]
        prop == IF Len(parts) >= 2 THEN parts[2] ELSE <<"undefined">>
    IN  IF domain \notin DOMAIN domains THEN NoFunc(Null)
        ELSE IF prop \in domains[domain]
             THEN [kind |-> "function", domain |-> domain, prop |-> prop]
             ELSE NoFunc(Undefined)

\* if (func) ...
Truthy(func) == func.kind = "function"

\* a normalisation that leaves null as it is
NormalizeResultKeepsNull(result) == result

\* if (result === null) { result = {}; }
NormalizeResult(result) == IF result = Null THEN EmptyObject ELSE result

\* a tail that sends nothing when no value was produced
DeliverTailDropsUndefined(msg, result) ==
    IF result \in {IGNORE_RETURN, Undefined} THEN <<>>
    ELSE <<[id |-> msg.id, result |-> NormalizeResult(result)]>>

\* a tail without the test for the suppression sentinel
DeliverTailSendsSentinel(msg, result) ==
    <<[id |-> msg.id, result |-> NormalizeResult(result)]>>

\* the tail of deliver, from `if (result === '__IGNORE_RETURN__')` on: the
\* messages it sends to the frontend
DeliverTail(msg, result) ==
    IF result = IGNORE_RETURN THEN <<>>
    ELSE <<[id |-> msg.id, result |-> NormalizeResult(result)]>>

Tags(k, who, n) == [i \in 1..n |-> [call |-> k, by |-> who]]

\* deliver(msg, store) up to its first suspension: without a handler it runs
\* to its end, with one it calls the handler and awaits it
Deliver(msg) ==
    LET k == Len(calls) + 1
        func == LookupHandler(msg.method)
        out == DeliverTail(msg, Undefined)
    IN  /\ Len(calls) < MaxCalls
        /\ IF Truthy(func)
           THEN /\ calls' = Append(calls, [op |-> "deliver", pc |-> "await", msg |-> msg,
                                           func |-> func, result |-> Undefined])
                /\ UNCHANGED <<frontend, frontendBy>>
           ELSE /\ calls' = Append(calls, [op |-> "deliver", pc |-> "done", msg |-> msg,
                                           func |-> func, result |-> Undefined])
                /\ frontend' = frontend \o out
                /\ frontendBy' = frontendBy \o Tags(k, "deliver", Len(out))
        /\ UNCHANGED <<backend, backendBy, store>>

\* the handler called by deliver settles: it returns a value or throws, and
\* may have sent a notification of its own
HandlerSettles(k, outcome, notify) ==
    /\ k \in 1..Len(calls)
    /\ calls[k].op = "deliver" /\ calls[k].pc = "await"
    /\ calls' = [calls EXCEPT ![k] =
            IF outcome.kind = "return"
            THEN [@ EXCEPT !.pc = "resolved", !.result = outcome.value]
            ELSE [@ EXCEPT !.pc = "rejected"]]
    /\ frontend' = IF notify THEN Append(frontend, HandlerNotification) ELSE frontend
    /\ frontendBy' = IF notify THEN Append(frontendBy, [call |-> k, by |-> "handler"])
                     ELSE frontendBy
    /\ UNCHANGED <<backend, backendBy, store>>

\* deliver resumes after `await func(msg, store, this)`
DeliverResume(k) ==
    LET out == DeliverTail(calls[k].msg, calls[k].result)
    IN  /\ k \in 1..Len(calls)
        /\ calls[k].op = "deliver" /\ calls[k].pc = "resolved"
        /\ calls' = [calls EXCEPT ![k].pc = "done"]
        /\ frontend' = frontend \o out
        /\ frontendBy' = frontendBy \o Tags(k, "deliver", Len(out))
        /\ UNCHANGED <<backend, backendBy, store>>

----------------------------------------------------------------------------
(* scriptParsed *)

\* crypto md5 of the id, hex, upper case: a digest is taken to identify its input
MD5UpperHex(scriptId) == <<"MD5:">> \o scriptId

\* let path = scriptId.replace('@', ''); if (path.startsWith('./')) path = path.replace('./', '')
DisplayPath(scriptId) ==
    LET path == Replace(scriptId, <<"@">>, <<>>)
    IN  IF StartsWith(path, <<".", "/">>) THEN Replace(path, <<".", "/">>, <<>>) ELSE path

\* early returns that forget what was registered
ScriptParsedSkipsForgetful(scriptId, parsed) == ~StartsWith(scriptId, <<"@">>)

\* early returns that take any id for a virtual script
ScriptParsedSkipsAnyId(scriptId, parsed) == scriptId \in parsed

\* the two early returns of scriptParsed
ScriptParsedSkips(scriptId, parsed) ==
    \/ ~StartsWith(scriptId, <<"@">>)
    \/ scriptId \in parsed

ScriptParsedMessage(scriptId, endLine) ==
    [method |-> "Debugger.scriptParsed",
     params |-> [endColumn |-> 0,
                 endLine |-> endLine,
                 executionContextAuxData |-> [frameId |-> "1", isDefault |-> TRUE],
                 executionContextId |-> 1,
                 hasSourceURL |-> FALSE,
                 hash |-> MD5UpperHex(scriptId),
                 isLiveEdit |-> FALSE,
                 scriptId |-> scriptId,
                 sourceMapURL |-> <<>>,
                 startColumn |-> 0,
                 startLine |-> 0,
                 url |-> <<"file:///">> \o DisplayPath(scriptId)]]

\* the default of the parameter endLine
DefaultEndLine == -1

\* a notification whose endLine is always 0
ScriptParsedSendsEndLineZero(scriptId, parsed, endLine) ==
    IF ScriptParsedSkips(scriptId, parsed) THEN <<>>
    ELSE <<ScriptParsedMessage(scriptId, 0)>>

\* scriptParsed(scriptId, store, endLine): what it sends, given store.scriptParsedFiles
ScriptParsedSends(scriptId, parsed, endLine) ==
    IF ScriptParsedSkips(scriptId, parsed) THEN <<>>
    ELSE <<ScriptParsedMessage(scriptId, endLine)>>

\* scriptParsed(scriptId, store, endLine): store.scriptParsedFiles after it
ScriptParsedMarks(scriptId, parsed) ==
    IF ScriptParsedSkips(scriptId, parsed) THEN parsed ELSE parsed \cup {scriptId}

----------------------------------------------------------------------------
(* The pause payloads of the backend *)

HostVM == <<"hostvm">>

FrameA == [file |-> <<"@", ".", "/", "a.lua">>, line |-> 5, func |-> "main"]
FrameH == [file |-> <<"@", ".", "/", ".", ".", "/", "hostvm", "/", "init.lua">>,
           line |-> 12, func |-> "boot"]
FrameC == [file |-> <<"=[C]">>, line |-> 1, func |-> "pcall"]
Frames == {FrameA, FrameH, FrameC}

Stacks == UNION {[1..n -> Frames] : n \in 0..MaxStack}

\* with and without the field `stacks`
PauseData == [stacks : Stacks, step : {"over"}] \cup [step : {"over"}]

----------------------------------------------------------------------------
(* restorePause *)

RECURSIVE JSONStringify(_)
\* JSON.stringify of an object given as its <<key, value text>> pairs, in order
JSONStringify(pairs) ==
    IF pairs = <<>> THEN <<"{", "}">>
    ELSE LET rest == JSONStringify(Tail(pairs))
             sep == IF Len(pairs) = 1 THEN <<>> ELSE <<",">>
         IN  <<"{", "\"" \o pairs[1][1] \o "\"", ":">> \o pairs[1][2] \o sep \o Tail(rest)

JSONString(str) == <<"\"" \o str \o "\"">>

\* let stacks = data.stacks ? data.stacks.slice() : []
CopyStacks(data) == IF "stacks" \in DOMAIN data THEN data.stacks ELSE <<>>

\* a working copy that is the array of the payload itself
WorkingCopyIsPayloadArray(data) == "stacks" \in DOMAIN data

\* slice() returns a new array: the working copy is never data.stacks itself
WorkingCopyAliases(data) == FALSE

\* the payload object after stacks.shift(): touched only through an alias
PayloadAfterShift(data, firstStackShifted) ==
    IF WorkingCopyAliases(data) /\ firstStackShifted
    THEN [data EXCEPT !.stacks = Tail(@)]
    ELSE data

\* firstStack && firstStack.file.includes('hostvm')
FirstStackIsHostVM(stacks) == stacks # <<>> /\ Includes(stacks[1].file, HostVM)

\* an ordinal that ignores the shift
FrameOrdinalUnshifted(i, firstStackShifted) == i

\* the ordinal / level of the frame at 0-based position i of the working stack
FrameOrdinal(i, firstStackShifted) == IF firstStackShifted THEN i + 1 ELSE i

ScopeObject(level, group) ==
    [className |-> "Object",
     description |-> "Table",
     objectId |-> JSONStringify(<< <<"level", NumberToString(level)>>,
                                   <<"group", JSONString(group)>> >>),
     type |-> "object"]

\* the callback of stacks.map, i 0-based
CallFrame(s, i, firstStackShifted, counter) ==
    [callFrameId |-> JSONStringify(
         << <<"ordinal", NumberToString(FrameOrdinal(i, firstStackShifted))>>,
            <<"injectedScriptId", NumberToString(counter)>> >>),
     functionLocation |-> [columnNumber |-> 0, lineNumber |-> s.line - 1, scriptId |-> s.file],
     functionName |-> s.func,
     location |-> [columnNumber |-> 0, lineNumber |-> s.line - 1, scriptId |-> s.file],
     scopeChain |-> << [object |-> ScopeObject(FrameOrdinal(i, firstStackShifted), "locals"),
                        type |-> "local"],
                       [object |-> ScopeObject(FrameOrdinal(i, firstStackShifted), "upvalues"),
                        type |-> "closure"] >>]

\* the first frame of the payload instead of the working copy
HitFrameOfPayload(data, stacks) == data.stacks[1]

\* the frame the do-expression of hitBreakpoints reads: const s = stacks[0],
\* stacks being the working copy
HitFrame(data, stacks) == stacks[1]

\* the line left 1-based
HitBreakpointOneBased(s) ==
    LET file == Replace(Replace(s.file, <<"@">>, <<>>), <<".", "/">>, <<>>)
    IN  <<"file:///">> \o file \o <<":">> \o NumberToString(s.line) \o <<":", "0">>

\* s.file.replace('@', '').replace('./', '') and `file:///${file}:${s.line - 1}:0`
HitBreakpoint(s) ==
    LET file == Replace(Replace(s.file, <<"@">>, <<>>), <<".", "/">>, <<>>)
    IN  <<"file:///">> \o file \o <<":">> \o NumberToString(s.line - 1) \o <<":", "0">>

PausedMessage(data, stacks, firstStackShifted, counter) ==
    [method |-> "Debugger.paused",
     params |-> [callFrames |-> [j \in 1..Len(stacks) |->
                                    CallFrame(stacks[j], j - 1, firstStackShifted, counter)],
                 hitBreakpoints |-> <<HitBreakpoint(HitFrame(data, stacks))>>,
                 reason |-> "other",
                 data |-> [step |-> data.step]]]

\* a counter that is not incremented
FrameScriptIdCountKept(count) == count

\* store.frameScriptIdCount += 1
NextFrameScriptIdCount(count) == count + 1

\* a loop that is not awaited: restorePause goes on at once
LoopNotAwaited(task) == TRUE

\* `await (async () => { for (const s of stacks) ... })()` lets restorePause go on
\* once scriptParsed has been called for every frame of the working stack
LoopFinished(task) == task.i = Len(task.stacks)

\* restorePause(data, store) up to its first suspension: the counter, the
\* working copy, the shift, and the first scriptParsed of the loop
RestorePause(data) ==
    LET k == Len(calls) + 1
        copy == CopyStacks(data)
        firstStackShifted == FirstStackIsHostVM(copy)
        stacks == IF firstStackShifted THEN Tail(copy) ELSE copy
        out == IF stacks = <<>> THEN <<>>
               ELSE ScriptParsedSends(stacks[1].file, scriptParsedFiles, DefaultEndLine)
    IN  /\ Len(calls) < MaxCalls
        /\ frameScriptIdCount' = NextFrameScriptIdCount(frameScriptIdCount)
        /\ scriptParsedFiles' = IF stacks = <<>> THEN scriptParsedFiles
                                ELSE ScriptParsedMarks(stacks[1].file, scriptParsedFiles)
        /\ frontend' = frontend \o out
        /\ frontendBy' = frontendBy \o Tags(k, "scriptParsed", Len(out))
        /\ calls' = Append(calls, [op |-> "restorePause", pc |-> "loop", payload |-> data,
                                   data |-> PayloadAfterShift(data, firstStackShifted),
                                   stacks |-> stacks, firstStackShifted |-> firstStackShifted,
                                   i |-> IF stacks = <<>> THEN 0 ELSE 1])
        /\ UNCHANGED <<backend, backendBy, activeBreakpoints, debuggerPauseData>>

\* the loop resumes after `await this.scriptParsed(s.file, store)`: next frame
RestorePauseLoop(k) ==
    /\ k \in 1..Len(calls)
    /\ calls[k].op = "restorePause" /\ calls[k].pc = "loop"
    /\ ~LoopFinished(calls[k])
    /\ LET s == calls[k].stacks[calls[k].i + 1]
           out == ScriptParsedSends(s.file, scriptParsedFiles, DefaultEndLine)
       IN  /\ scriptParsedFiles' = ScriptParsedMarks(s.file, scriptParsedFiles)
           /\ frontend' = frontend \o out
           /\ frontendBy' = frontendBy \o Tags(k, "scriptParsed", Len(out))
    /\ calls' = [calls EXCEPT ![k].i = @ + 1]
    /\ UNCHANGED <<backend, backendBy, frameScriptIdCount, activeBreakpoints, debuggerPauseData>>

\* a pause that is sent whatever the working stack, with no call frame and no
\* hit string when it is empty
PausedSendsAlways(task, counter) ==
    IF task.stacks = <<>>
    THEN <<[method |-> "Debugger.paused",
            params |-> [callFrames |-> <<>>, hitBreakpoints |-> <<>>, reason |-> "other",
                        data |-> [step |-> task.data.step]]]>>
    ELSE <<PausedMessage(task.data, task.stacks, task.firstStackShifted, counter)>>

\* what restorePause sends once the loop is over: Debugger.paused, or nothing
\* with an empty working stack, where `const s = stacks[0]` is undefined and
\* s.file throws before the message is built
PausedSends(task, counter) ==
    IF task.stacks = <<>> THEN <<>>
    ELSE <<PausedMessage(task.data, task.stacks, task.firstStackShifted, counter)>>

\* the loop is over: the call frames are built and Debugger.paused is sent,
\* or the call is rejected
RestorePauseSend(k) ==
    /\ k \in 1..Len(calls)
    /\ calls[k].op = "restorePause" /\ calls[k].pc = "loop"
    /\ LoopFinished(calls[k])
    /\ LET out == PausedSends(calls[k], frameScriptIdCount)
       IN  /\ calls' = [calls EXCEPT ![k].pc = IF out = <<>> THEN "rejected" ELSE "done"]
           /\ frontend' = frontend \o out
           /\ frontendBy' = frontendBy \o Tags(k, "restorePause", Len(out))
    /\ UNCHANGED <<backend, backendBy, store>>

\* scriptParsed(scriptId, store, endLine) called on its own
ScriptParsed(scriptId, endLine) ==
    LET k == Len(calls) + 1
        out == ScriptParsedSends(scriptId, scriptParsedFiles, endLine)
    IN  /\ Len(calls) < MaxCalls
        /\ scriptParsedFiles' = ScriptParsedMarks(scriptId, scriptParsedFiles)
        /\ frontend' = frontend \o out
        /\ frontendBy' = frontendBy \o Tags(k, "scriptParsed", Len(out))
        /\ calls' = Append(calls, [op |-> "scriptParsed", pc |-> "done",
                                   scriptId |-> scriptId, endLine |-> endLine])
        /\ UNCHANGED <<backend, backendBy, frameScriptIdCount, activeBreakpoints, debuggerPauseData>>

\* restoreResumed(data, store)
RestoreResumed ==
    LET k == Len(calls) + 1
    IN  /\ Len(calls) < MaxCalls
        /\ debuggerPauseData' = Null
        /\ frontend' = Append(frontend, [method |-> "Debugger.resumed", params |-> EmptyObject])
        /\ frontendBy' = Append(frontendBy, [call |-> k, by |-> "restoreResumed"])
        /\ calls' = Append(calls, [op |-> "restoreResumed", pc |-> "done"])
        /\ UNCHANGED <<backend, backendBy, scriptParsedFiles, frameScriptIdCount, activeBreakpoints>>

----------------------------------------------------------------------------
(* scriptParseProject; glob and the file system are collaborators *)

project == [sourceRoot |-> <<"proj", "/">>]

ProjectA == [file |-> <<"proj", "/", "a.lua">>, content |-> <<"x", "\n", "y">>]
ProjectE == [file |-> <<"proj", "/", "e.lua">>, content |-> <<"z">>]
\* what globFiles may resolve to
ProjectListings == {<<>>, <<ProjectA>>, <<ProjectA, ProjectE>>}

\* scriptParseProject(store) up to `await globFiles(pattern)`
ScriptParseProject ==
    /\ Len(calls) < MaxCalls
    /\ calls' = Append(calls, [op |-> "scriptParseProject", pc |-> "glob",
                               files |-> <<>>, i |-> 0])
    /\ UNCHANGED <<frontend, frontendBy, backend, backendBy, store>>

\* globFiles settles: the listing, or a rejection
ScriptParseProjectGlob(k, listing, ok) ==
    /\ k \in 1..Len(calls)
    /\ calls[k].op = "scriptParseProject" /\ calls[k].pc = "glob"
    /\ calls' = [calls EXCEPT ![k] =
            IF ~ok THEN [@ EXCEPT !.pc = "rejected"]
            ELSE IF listing = <<>> THEN [@ EXCEPT !.pc = "done"]
            ELSE [@ EXCEPT !.pc = "read", !.files = listing]]
    /\ UNCHANGED <<frontend, frontendBy, backend, backendBy, store>>

\* readFile settles for the next file: its script is registered with the
\* line count of the content, or the operation is rejected
ScriptParseProjectRead(k, ok) ==
    /\ k \in 1..Len(calls)
    /\ calls[k].op = "scriptParseProject" /\ calls[k].pc = "read"
    /\ LET entry == calls[k].files[calls[k].i + 1]
           path == Replace(entry.file, project.sourceRoot, <<>>)
           lines == Split(entry.content, "\n")
           scriptId == <<"@", ".", "/">> \o path
           out == ScriptParsedSends(scriptId, scriptParsedFiles, Len(lines))
       IN  IF ok
           THEN /\ scriptParsedFiles' = ScriptParsedMarks(scriptId, scriptParsedFiles)
                /\ frontend' = frontend \o out
                /\ frontendBy' = frontendBy \o Tags(k, "scriptParsed", Len(out))
                /\ calls' = [calls EXCEPT ![k].i = @ + 1,
                                          ![k].pc = IF calls[k].i + 1 = Len(calls[k].files)
                                                    THEN "done" ELSE "read"]
           ELSE /\ calls' = [calls EXCEPT ![k].pc = "rejected"]
                /\ UNCHANGED <<frontend, frontendBy, scriptParsedFiles>>
    /\ UNCHANGED <<backend, backendBy, frameScriptIdCount, activeBreakpoints, debuggerPauseData>>

----------------------------------------------------------------------------
(* contextCreated, the event replay and the command translators *)

ContextCreatedMessage ==
    [method |-> "Runtime.executionContextCreated",
     params |-> [context |-> [id |-> 1, origin |-> "file://", name |-> "Debug Context",
                              auxData |-> [isDefault |-> TRUE, frameId |-> "1"]]]]

ContextCreated ==
    LET k == Len(calls) + 1
    IN  /\ Len(calls) < MaxCalls
        /\ frontend' = Append(frontend, ContextCreatedMessage)
        /\ frontendBy' = Append(frontendBy, [call |-> k, by |-> "contextCreated"])
        /\ calls' = Append(calls, [op |-> "contextCreated", pc |-> "done"])
        /\ UNCHANGED <<backend, backendBy, store>>

\* the events the store holds, in stored order
StoredEvents ==
    << [method |-> "Log.entryAdded", params |-> [entry |-> "first"]],
       [method |-> "Runtime.consoleAPICalled", params |-> [args |-> "print"]],
       [method |-> "Log.entryAdded", params |-> [entry |-> "second"]] >>

RECURSIVE SelectByMethod(_, _)
\* store.eventGetByMethod(method)
SelectByMethod(events, method) ==
    IF events = <<>> THEN <<>>
    ELSE (IF Head(events).method = method THEN <<Head(events)>> ELSE <<>>)
         \o SelectByMethod(Tail(events), method)

ReplayOps == {"replayFrontendLogEvents", "replayFrontendRuntimeEvents"}

\* const method = 'Log.entryAdded' / 'Runtime.consoleAPICalled'
ReplayMethod(op) ==
    IF op = "replayFrontendLogEvents" THEN "Log.entryAdded" ELSE "Runtime.consoleAPICalled"

\* a replay that sends the events last to first
ReplaySendsReversed(events) == [j \in 1..Len(events) |-> events[Len(events) + 1 - j]]

\* for (const event of events) this.sendFrontend(event)
ReplaySends(events) == events

\* replayFrontendLogEvents / replayFrontendRuntimeEvents up to
\* `await store.eventGetByMethod(method)`
ReplayFrontendEvents(op) ==
    /\ Len(calls) < MaxCalls
    /\ calls' = Append(calls, [op |-> op, pc |-> "await", method |-> ReplayMethod(op)])
    /\ UNCHANGED <<frontend, frontendBy, backend, backendBy, store>>

\* the store answers: every event is sent to the frontend
ReplayFrontendEventsResume(k) ==
    /\ k \in 1..Len(calls)
    /\ calls[k].op \in ReplayOps /\ calls[k].pc = "await"
    /\ LET out == ReplaySends(SelectByMethod(StoredEvents, calls[k].method))
       IN  /\ frontend' = frontend \o out
           /\ frontendBy' = frontendBy \o Tags(k, "replay", Len(out))
    /\ calls' = [calls EXCEPT ![k].pc = "done"]
    /\ UNCHANGED <<backend, backendBy, store>>

\* this.sendBackend({method, params}) at the end of the translator `op` called
\* with `args`
SendBackend(command, op, args) ==
    /\ Len(calls) < MaxCalls
    /\ backend' = Append(backend, command)
    /\ backendBy' = Append(backendBy, Len(calls) + 1)
    /\ calls' = Append(calls, [op |-> op, pc |-> "done", args |-> args])
    /\ UNCHANGED <<frontend, frontendBy, store>>

DebuggerResume ==
    SendBackend([method |-> "behavior.executeResume", params |-> Null],
                "debuggerResume", <<>>)

\* a skip that always sends a state object
SkipParamsStateOnly(value) == [state |-> IF value THEN "always" ELSE "never"]

\* const params = value ? {state: 'always'} : null; value: a boolean
SkipParams(value) == IF value THEN [state |-> "always"] ELSE Null

DebuggerSkip(value) ==
    SendBackend([method |-> "behavior.setSkipSituation", params |-> SkipParams(value)],
                "debuggerSkip", <<value>>)

PauseTrapperValues == {"none", "error"}

\* const params = value !== 'none' ? {state: value} : null
PauseTrapperParams(value) == IF value # "none" THEN [state |-> value] ELSE Null

DebuggerPauseTrapper(value) ==
    SendBackend([method |-> "behavior.setPauseTrapper", params |-> PauseTrapperParams(value)],
                "debuggerPauseTrapper", <<value>>)

StepTypes == {Null, [type |-> "string", value |-> "in"]}

\* const params = step_type !== null ? {step_type} : null
StepUpParams(step_type) == IF step_type # Null THEN [step_type |-> step_type] ELSE Null

DebuggerStepUp(step_type) ==
    SendBackend([method |-> "behavior.setPausePace", params |-> StepUpParams(step_type)],
                "debuggerStepUp", <<step_type>>)

\* the breakpoints the store may hold, as store.breakpointGetAll() resolves them
Breakpoint1 == [breakpointId |-> "bp:1", url |-> "a.lua", lineNumber |-> 5]
Breakpoint2 == [breakpointId |-> "bp:2", url |-> "e.lua", lineNumber |-> 9]
BreakpointListings == {<<>>, <<Breakpoint1>>, <<Breakpoint2, Breakpoint1>>}

\* a breakpoint sent as the store holds it
KeepBreakpointId(breakpoint) == breakpoint

\* delete breakpoint.breakpointId
DeleteBreakpointId(breakpoint) ==
    [f \in DOMAIN breakpoint \ {"breakpointId"} |-> breakpoint[f]]

\* null for the inactive breakpoints
InactiveBreakpointsNull == Null

\* breakpoints = [] when the breakpoints are inactive
InactiveBreakpoints == <<>>

\* updateBreakpoints(store) up to `await store.breakpointGetAll()`, or to its
\* end when store.activeBreakpoints is false
UpdateBreakpoints ==
    /\ Len(calls) < MaxCalls
    /\ IF activeBreakpoints
       THEN /\ calls' = Append(calls, [op |-> "updateBreakpoints", pc |-> "await",
                                       active |-> TRUE, queried |-> TRUE])
            /\ UNCHANGED <<backend, backendBy>>
       ELSE /\ calls' = Append(calls, [op |-> "updateBreakpoints", pc |-> "done",
                                       active |-> FALSE, queried |-> FALSE])
            /\ backend' = Append(backend, [method |-> "behavior.setPauseBreakpoints",
                                           params |-> InactiveBreakpoints])
            /\ backendBy' = Append(backendBy, Len(calls) + 1)
    /\ UNCHANGED <<frontend, frontendBy, store>>

\* the store answers with its breakpoints: the ids are deleted, the list is sent
UpdateBreakpointsResume(k, listing) ==
    /\ k \in 1..Len(calls)
    /\ calls[k].op = "updateBreakpoints" /\ calls[k].pc = "await"
    /\ backend' = Append(backend,
           [method |-> "behavior.setPauseBreakpoints",
            params |-> [j \in 1..Len(listing) |-> DeleteBreakpointId(listing[j])]])
    /\ backendBy' = Append(backendBy, k)
    /\ calls' = [calls EXCEPT ![k] = [op |-> "updateBreakpoints", pc |-> "done",
                                      active |-> TRUE, queried |-> TRUE,
                                      listing |-> listing]]
    /\ UNCHANGED <<frontend, frontendBy, store>>

\* the blackboxes the store may hold, as store.blackboxGetAll() resolves them
Blackbox1 == [blackboxId |-> "bb:1", pattern |-> "vendor"]
BlackboxListings == {<<>>, <<Blackbox1>>}

\* delete blackbox.blackboxId
DeleteBlackboxId(blackbox) == [f \in DOMAIN blackbox \ {"blackboxId"} |-> blackbox[f]]

\* updateBlackboxes(store) up to `await store.blackboxGetAll()`
UpdateBlackboxes ==
    /\ Len(calls) < MaxCalls
    /\ calls' = Append(calls, [op |-> "updateBlackboxes", pc |-> "await"])
    /\ UNCHANGED <<frontend, frontendBy, backend, backendBy, store>>

\* the store answers with its blackboxes
UpdateBlackboxesResume(k, listing) ==
    /\ k \in 1..Len(calls)
    /\ calls[k].op = "updateBlackboxes" /\ calls[k].pc = "await"
    /\ backend' = Append(backend,
           [method |-> "behavior.setSkipBlackBoxes",
            params |-> [j \in 1..Len(listing) |-> DeleteBlackboxId(listing[j])]])
    /\ backendBy' = Append(backendBy, k)
    /\ calls' = [calls EXCEPT ![k].pc = "done"]
    /\ UNCHANGED <<frontend, frontendBy, store>>

\* the arguments the domain handlers pass to the queries
ScopeKeys == <<"x">>
ScopeTypes == {"locals", "upvalues"}
WatchCode == "x + 1"

\* a level passed on as it is
BackendLevelZeroBased(level) == level

\* level: level + 1
BackendLevel(level) == level + 1

GetStackScope(reqId, level, keys, type) ==
    SendBackend([method |-> "behavior.queryScope",
                 params |-> [parrot |-> [id |-> reqId, keys |-> keys],
                             level |-> BackendLevel(level),
                             type |-> type]],
                "getStackScope", <<reqId, level, keys, type>>)

GetStackWatch(reqId, level, code) ==
    SendBackend([method |-> "behavior.queryWatch",
                 params |-> [parrot |-> [id |-> reqId],
                             level |-> BackendLevel(level),
                             code |-> code]],
                "getStackWatch", <<reqId, level, code>>)

GetRepl(reqId, code) ==
    SendBackend([method |-> "behavior.queryRepl",
                 params |-> [parrot |-> [id |-> reqId], code |-> code]],
                "getRepl", <<reqId, code>>)

----------------------------------------------------------------------------

\* a fresh modem and session store; `active` is store.activeBreakpoints
InitStore(active) ==
    /\ frontend = <<>>
    /\ backend = <<>>
    /\ scriptParsedFiles = {}
    /\ frameScriptIdCount = 0
    /\ activeBreakpoints = active
    /\ debuggerPauseData = Null
    /\ calls = <<>>
    /\ frontendBy = <<>>
    /\ backendBy = <<>>

Init == InitStore(TRUE)

Next ==
    \/ \E msg \in Requests : Deliver(msg)
    \/ \E k \in 1..MaxCalls, outcome \in HandlerOutcomes, notify \in BOOLEAN :
            HandlerSettles(k, outcome, notify)
    \/ \E k \in 1..MaxCalls : DeliverResume(k)
    \/ \E data \in PauseData : RestorePause(data)
    \/ \E k \in 1..MaxCalls : RestorePauseLoop(k)
    \/ \E k \in 1..MaxCalls : RestorePauseSend(k)
    \/ \E f \in Frames, endLine \in {DefaultEndLine, 3} : ScriptParsed(f.file, endLine)
    \/ RestoreResumed
    \/ ScriptParseProject
    \/ \E k \in 1..MaxCalls, listing \in ProjectListings, ok \in BOOLEAN :
            ScriptParseProjectGlob(k, listing, ok)
    \/ \E k \in 1..MaxCalls, ok \in BOOLEAN : ScriptParseProjectRead(k, ok)
    \/ ContextCreated
    \/ \E op \in ReplayOps : ReplayFrontendEvents(op)
    \/ \E k \in 1..MaxCalls : ReplayFrontendEventsResume(k)
    \/ DebuggerResume
    \/ \E value \in BOOLEAN : DebuggerSkip(value)
    \/ \E value \in PauseTrapperValues : DebuggerPauseTrapper(value)
    \/ \E step_type \in StepTypes : DebuggerStepUp(step_type)
    \/ UpdateBreakpoints
    \/ \E k \in 1..MaxCalls, listing \in BreakpointListings : UpdateBreakpointsResume(k, listing)
    \/ UpdateBlackboxes
    \/ \E k \in 1..MaxCalls, listing \in BlackboxListings : UpdateBlackboxesResume(k, listing)
    \/ \E level \in 0..MaxStack, type \in ScopeTypes : GetStackScope(1, level, ScopeKeys, type)
    \/ \E level \in 0..MaxStack : GetStackWatch(1, level, WatchCode)
    \/ GetRepl(1, WatchCode)

Spec == Init /\ [][Next]_vars

\* one restorePause on its own, for what it makes of one payload
NextPause ==
    \/ \E data \in PauseData : calls = <<>> /\ RestorePause(data)
    \/ RestorePauseLoop(1)
    \/ RestorePauseSend(1)

SpecPause == Init /\ [][NextPause]_vars

\* the command translators and the replays on their own, the breakpoints of
\* the session active or not
InitCommands == \E active \in BOOLEAN : InitStore(active)

NextCommands ==
    \/ \E op \in ReplayOps : ReplayFrontendEvents(op)
    \/ \E k \in 1..MaxCalls : ReplayFrontendEventsResume(k)
    \/ DebuggerResume
    \/ \E value \in BOOLEAN : DebuggerSkip(value)
    \/ \E value \in PauseTrapperValues : DebuggerPauseTrapper(value)
    \/ \E step_type \in StepTypes : DebuggerStepUp(step_type)
    \/ UpdateBreakpoints
    \/ \E k \in 1..MaxCalls, listing \in BreakpointListings : UpdateBreakpointsResume(k, listing)
    \/ UpdateBlackboxes
    \/ \E k \in 1..MaxCalls, listing \in BlackboxListings : UpdateBlackboxesResume(k, listing)
    \/ \E level \in 0..MaxStack, type \in ScopeTypes : GetStackScope(1, level, ScopeKeys, type)
    \/ \E level \in 0..MaxStack : GetStackWatch(1, level, WatchCode)
    \/ GetRepl(1, WatchCode)

SpecCommands == InitCommands /\ [][NextCommands]_vars

----------------------------------------------------------------------------
(* Properties of deliver *)

\* the positions of the frontend stream that call k filled, as `who`
SentBy(k, who) == {i \in 1..Len(frontend) : frontendBy[i] = [call |-> k, by |-> who]}
SentByCall(k) == {i \in 1..Len(frontend) : frontendBy[i].call = k}

DeliverCalls == {k \in 1..Len(calls) : calls[k].op = "deliver"}

\* the request's method names a handler of the table: "Domain.action", read as
\* the text before the first dot and the text up to the second
NamesHandler(method) ==
    \E d \in DOMAIN domains : \E a \in domains[d] :
        LET name == d \o <<".">> \o a
        IN  \/ method = name
            \/ StartsWith(method, name \o <<".">>)

NoDot(method) == \A i \in 1..Len(method) : method[i] # "."

C2_SentinelNoResponse ==
    \A k \in DeliverCalls :
        (calls[k].pc \in {"resolved", "done"} /\ calls[k].result = IGNORE_RETURN) =>
            /\ SentBy(k, "deliver") = {}
            /\ \A i \in SentByCall(k) : "id" \notin DOMAIN frontend[i]

C2_Witness ==
    \E k \in DeliverCalls :
        /\ calls[k].pc = "done"
        /\ calls[k].result = IGNORE_RETURN
        /\ SentBy(k, "handler") # {}

\* C3: a request with a registered handler whose result is not the sentinel
\* gets exactly one response, sent after the handler has completed (nothing
\* before, and after whatever the handler sent), with the request's id and the
\* handler's result, null being replaced by {}.
C3_OneResponse ==
    \A k \in DeliverCalls :
        NamesHandler(calls[k].msg.method) =>
            /\ calls[k].pc \in {"await", "resolved", "rejected"} => SentBy(k, "deliver") = {}
            /\ (calls[k].pc = "done" /\ calls[k].result # IGNORE_RETURN) =>
                   /\ Cardinality(SentBy(k, "deliver")) = 1
                   /\ \A i \in SentBy(k, "deliver") :
                          /\ frontend[i] =
                                 [id |-> calls[k].msg.id,
                                  result |-> IF calls[k].result = Null THEN EmptyObject
                                             ELSE calls[k].result]
                          /\ \A j \in SentBy(k, "handler") : j < i

C3_Witness ==
    /\ Len(calls) = 2
    /\ \A k \in 1..2 : /\ calls[k].op = "deliver" /\ calls[k].pc = "done"
                       /\ Truthy(calls[k].func)
                       /\ calls[k].msg.id = k
    /\ calls[1].result = Null
    /\ calls[2].result = [type |-> "object", keys |-> {"value"}]
    /\ frontend[Len(frontend)] = [id |-> 1, result |-> EmptyObject]

\* C4, as stated: no response sent by deliver has a null or missing result; a
\* handler that returned nothing gets {} like one that returned null.
C4_ResponseHasResult ==
    \A k \in DeliverCalls : \A i \in SentBy(k, "deliver") :
        frontend[i].result \notin {Null, Undefined}

----------------------------------------------------------------------------
(* Properties of the script registry and of restorePause *)

IsVirtual(scriptId) == scriptId # <<>> /\ scriptId[1] = "@"

\* where the frontend stream announces scriptId
ParsedAt(scriptId) ==
    {i \in 1..Len(frontend) : /\ "method" \in DOMAIN frontend[i]
                              /\ frontend[i].method = "Debugger.scriptParsed"
                              /\ frontend[i].params.scriptId = scriptId}

\* the id scriptParseProject gives a file of the project: "@./" and the path
\* below the source root
ProjectScriptId(entry) ==
    <<"@", ".", "/">> \o SubSeq(entry.file, Len(project.sourceRoot) + 1, Len(entry.file))

ScriptIds ==
    {f.file : f \in Frames} \cup {ProjectScriptId(e) : e \in {ProjectA, ProjectE}}

\* the calls of scriptParsed made so far with scriptId, as <<call, position>>
Invocations(scriptId) ==
    {<<k, 0>> : k \in {c \in 1..Len(calls) :
                          calls[c].op = "scriptParsed" /\ calls[c].scriptId = scriptId}}
    \cup UNION {{<<k, j>> : j \in {n \in 1..calls[k].i : calls[k].stacks[n].file = scriptId}} :
                   k \in {c \in 1..Len(calls) : calls[c].op = "restorePause"}}
    \cup UNION {{<<k, j>> : j \in {n \in 1..calls[k].i :
                                      ProjectScriptId(calls[k].files[n]) = scriptId}} :
                   k \in {c \in 1..Len(calls) : calls[c].op = "scriptParseProject"}}

\* C5: over any calls of scriptParsed, scriptParseProject and restorePause, a
\* ScriptId is announced at most once: once scriptParsed has been called with a
\* virtual id, however often, the stream holds exactly one Debugger.scriptParsed
\* for it and the id is marked in scriptParsedFiles; an id never passed is
\* neither announced nor marked.
C5_AnnouncedOnce ==
    \A id \in ScriptIds :
        /\ Cardinality(ParsedAt(id)) <= 1
        /\ (id \in scriptParsedFiles) <=> (ParsedAt(id) # {})
        /\ (IsVirtual(id) /\ Invocations(id) # {}) => Cardinality(ParsedAt(id)) = 1
        /\ Invocations(id) = {} => ParsedAt(id) = {}

C5_Witness ==
    \E id \in ScriptIds :
        /\ Cardinality(Invocations(id)) >= 3
        /\ Cardinality({inv[1] : inv \in Invocations(id)}) = 2
        /\ Cardinality(ParsedAt(id)) = 1

PauseCalls == {k \in 1..Len(calls) : calls[k].op = "restorePause"}

\* C6: frameScriptIdCount is the number of restorePause calls made so far: each
\* call adds exactly one (also a call that fails later) and no other operation
\* changes it.
C6_CounterCountsPauses == frameScriptIdCount = Cardinality(PauseCalls)

C6_Witness ==
    /\ Len(calls) = 2
    /\ PauseCalls = {1, 2}
    /\ calls[1].pc = "rejected"
    /\ calls[2].pc = "done"
    /\ frameScriptIdCount = 2

\* where the frontend stream holds a Debugger.paused
PausedAt == {i \in 1..Len(frontend) : frontendBy[i].by = "restorePause"}

\* the stack of the payload that the Debugger.paused at i answers
PayloadStack(i) == calls[frontendBy[i].call].payload.stacks

HasHostVM(file) == \E j \in 1..Len(file) : file[j] = "hostvm"

\* 1 when the leading frame of the payload is a host-VM frame, else 0
Dropped(i) == IF HasHostVM(PayloadStack(i)[1].file) THEN 1 ELSE 0

DigitValue(d) == CHOOSE n \in 0..9 : Digit[n + 1] = d

RECURSIVE ParseNat(_)
ParseNat(text) ==
    IF Len(text) = 1 THEN DigitValue(text[1])
    ELSE 10 * ParseNat(SubSeq(text, 1, Len(text) - 1)) + DigitValue(text[Len(text)])

\* the number a JSON text gives for key
JSONNumber(text, key) ==
    LET at == CHOOSE i \in 1..Len(text) : text[i] = "\"" \o key \o "\""
        end == CHOOSE j \in (at + 2)..Len(text) :
                   /\ text[j] \in {",", "}"}
                   /\ \A h \in (at + 2)..(j - 1) : text[h] \notin {",", "}"}
    IN  ParseNat(SubSeq(text, at + 2, end - 1))

\* C7: a Debugger.paused for a stack of N frames has N call frames with the
\* ordinals 0..N-1 in frame order when the first frame's file does not contain
\* 'hostvm', and N-1 call frames with the ordinals 1..N-1 when it does; the
\* ordinal is the same in callFrameId and in the level of both scope objectIds.
C7_Ordinals ==
    \A i \in PausedAt :
        LET callFrames == frontend[i].params.callFrames
            N == Len(PayloadStack(i))
        IN  /\ Len(callFrames) = N - Dropped(i)
            /\ \A j \in 1..Len(callFrames) :
                   /\ JSONNumber(callFrames[j].callFrameId, "ordinal") = Dropped(i) + j - 1
                   /\ JSONNumber(callFrames[j].scopeChain[1].object.objectId, "level")
                          = Dropped(i) + j - 1
                   /\ JSONNumber(callFrames[j].scopeChain[2].object.objectId, "level")
                          = Dropped(i) + j - 1
                   /\ callFrames[j].location.scriptId = PayloadStack(i)[Dropped(i) + j].file

C7_Witness ==
    \E i \in PausedAt :
        /\ Len(PayloadStack(i)) = 3
        /\ Dropped(i) = 1
        /\ Len(frontend[i].params.callFrames) = 2
        /\ JSONNumber(frontend[i].params.callFrames[2].callFrameId, "ordinal") = 2

\* C8: every call frame of a Debugger.paused whose scriptId is virtual was
\* announced by a Debugger.scriptParsed strictly earlier in the frontend stream.
C8_ParsedBeforePaused ==
    \A i \in PausedAt :
        \A j \in 1..Len(frontend[i].params.callFrames) :
            LET id == frontend[i].params.callFrames[j].location.scriptId
            IN  IsVirtual(id) => \E h \in ParsedAt(id) : h < i

C8_Witness ==
    \E i \in PausedAt :
        LET callFrames == frontend[i].params.callFrames
        IN  /\ Len(callFrames) = 2
            /\ IsVirtual(callFrames[1].location.scriptId)
            /\ IsVirtual(callFrames[2].location.scriptId)
            /\ \E h \in ParsedAt(callFrames[1].location.scriptId) :
                   frontendBy[h].call # frontendBy[i].call
            /\ \E h \in ParsedAt(callFrames[2].location.scriptId) :
                   frontendBy[h].call = frontendBy[i].call

\* the hit string of a frame as section 4.2 words it: the '@' prefix and a
\* leading './' stripped, then file:///{path}:{line-1}:0
StripPrefix(text, prefix) ==
    IF Len(text) >= Len(prefix) /\ \A j \in 1..Len(prefix) : text[j] = prefix[j]
    THEN SubSeq(text, Len(prefix) + 1, Len(text)) ELSE text

HitString(frame) ==
    <<"file:///">> \o StripPrefix(StripPrefix(frame.file, <<"@">>), <<".", "/">>)
        \o <<":">> \o NumberToString(frame.line - 1) \o <<":", "0">>

\* C9, as stated: hitBreakpoints is a one-element list whose string comes from
\* the first frame of the payload's stack, also when that frame was dropped.
C9_HitFromPayloadFirst ==
    \A i \in PausedAt :
        frontend[i].params.hitBreakpoints = <<HitString(PayloadStack(i)[1])>>

\* C9, amended: hitBreakpoints is a one-element list whose string comes from the
\* first frame of the working stack, the frame of the first call frame: the
\* payload's first frame when none was dropped, its second frame when the
\* leading host-VM frame was dropped.
C9_HitFromWorkingFirst ==
    \A i \in PausedAt :
        /\ frontend[i].params.hitBreakpoints = <<HitString(PayloadStack(i)[1 + Dropped(i)])>>
        /\ frontend[i].params.callFrames[1].location.scriptId
               = PayloadStack(i)[1 + Dropped(i)].file

C9_Witness ==
    \E i \in PausedAt :
        /\ PayloadStack(i) = <<FrameH, FrameA>>
        /\ frontend[i].params.hitBreakpoints = << <<"file:///", "a.lua", ":", "4", ":", "0">> >>

\* C10: when the frame the hit string is taken from is {file: '@./P', line: L},
\* the string is 'file:///P:(L-1):0': P is kept whole, L-1 is that frame's
\* location.lineNumber and the column is 0.
C10_HitFormat ==
    \A i \in PausedAt :
        LET frame == PayloadStack(i)[1 + Dropped(i)]
            hit == frontend[i].params.hitBreakpoints[1]
            P == SubSeq(frame.file, 4, Len(frame.file))
        IN  (Len(frame.file) >= 3 /\ SubSeq(frame.file, 1, 3) = <<"@", ".", "/">>) =>
                /\ Len(hit) >= Len(P) + 4
                /\ hit[1] = "file:///"
                /\ SubSeq(hit, 2, Len(P) + 1) = P
                /\ hit[Len(P) + 2] = ":"
                /\ ParseNat(SubSeq(hit, Len(P) + 3, Len(hit) - 2)) = frame.line - 1
                /\ SubSeq(hit, Len(hit) - 1, Len(hit)) = <<":", "0">>
                /\ frontend[i].params.callFrames[1].location.lineNumber = frame.line - 1

C10_Witness ==
    \E i \in PausedAt :
        /\ PayloadStack(i) = <<FrameH, FrameH, FrameA>>
        /\ frontend[i].params.hitBreakpoints[1]
               = <<"file:///", ".", ".", "/", "hostvm", "/", "init.lua", ":", "1", "1", ":", "0">>
        /\ frontend[i].params.callFrames[1].location.lineNumber = 11

----------------------------------------------------------------------------
(* The command translators *)

\* the positions of `backend` that call k has emitted
BackendOf(k) == {i \in 1..Len(backend) : backendBy[i] = k}

\* C11: debuggerSkip(value) emits exactly one backend command, its method is
\* 'behavior.setSkipSituation' and its params are {state: 'always'} when value
\* is true and null when value is false.
C11_SkipCommand ==
    \A k \in 1..Len(calls) :
        calls[k].op = "debuggerSkip" =>
            /\ Cardinality(BackendOf(k)) = 1
            /\ \A i \in BackendOf(k) :
                   /\ backend[i].method = "behavior.setSkipSituation"
                   /\ calls[k].args[1] = TRUE => backend[i].params = [state |-> "always"]
                   /\ calls[k].args[1] = FALSE => backend[i].params = Null

C11_Witness ==
    /\ Len(calls) = 2
    /\ calls[1].op = "debuggerSkip" /\ calls[1].args = <<FALSE>>
    /\ calls[2].op = "debuggerSkip" /\ calls[2].args = <<TRUE>>
    /\ backend = << [method |-> "behavior.setSkipSituation", params |-> Null],
                    [method |-> "behavior.setSkipSituation", params |-> [state |-> "always"]] >>

\* the call disables or clears a backend feature
Disables(k) ==
    \/ calls[k].op = "debuggerResume"
    \/ calls[k].op = "debuggerSkip" /\ calls[k].args[1] = FALSE
    \/ calls[k].op = "debuggerPauseTrapper" /\ calls[k].args[1] = "none"
    \/ calls[k].op = "debuggerStepUp" /\ calls[k].args[1] = Null
    \/ calls[k].op = "updateBreakpoints" /\ ~calls[k].active

\* the translators that send a list
SendsList(k) == calls[k].op \in {"updateBreakpoints", "updateBlackboxes"}

\* params is an object with fields, or a list
Structured(k, i) ==
    IF SendsList(k) THEN Len(backend[i].params) >= 0
    ELSE backend[i].params # Null /\ DOMAIN backend[i].params # {}

\* C12 as stated: the params of a backend command are null whenever the call
\* disables or clears a feature (resume, skip disabled, pause trapper 'none',
\* step mode null, breakpoints inactive) and a structured object otherwise.
C12_NullWhenDisabling ==
    \A i \in 1..Len(backend) :
        LET k == backendBy[i]
        IN  IF Disables(k) THEN backend[i].params = Null ELSE Structured(k, i)

\* C12: the params of a backend command are null for resume, skip disabled,
\* pause trapper 'none' and step mode null, the empty list for inactive
\* breakpoints, and a structured value (an object, or the list of breakpoints
\* or blackboxes) otherwise.
C12_NullOrEmptyListWhenDisabling ==
    \A i \in 1..Len(backend) :
        LET k == backendBy[i]
        IN  IF calls[k].op = "updateBreakpoints" /\ ~calls[k].active
            THEN backend[i].params = <<>>
            ELSE IF Disables(k) THEN backend[i].params = Null
            ELSE Structured(k, i)

C12_Witness ==
    /\ Len(calls) = 2
    /\ calls[1].op = "updateBreakpoints" /\ ~calls[1].active
    /\ calls[2].op = "debuggerPauseTrapper" /\ calls[2].args = <<"none">>
    /\ backend = << [method |-> "behavior.setPauseBreakpoints", params |-> <<>>],
                    [method |-> "behavior.setPauseTrapper", params |-> Null] >>

UpdateBreakpointsCalls == {k \in 1..Len(calls) : calls[k].op = "updateBreakpoints"}

\* C13: updateBreakpoints emits exactly one backend command, a
\* 'behavior.setPauseBreakpoints'.  With store.activeBreakpoints true its params
\* are the breakpoints the store returned, in that order, each without its
\* breakpointId and otherwise unchanged; with it false the params are the
\* empty list and the store is not queried.
C13_BreakpointsCommand ==
    \A k \in UpdateBreakpointsCalls :
        /\ Cardinality(BackendOf(k)) = (IF calls[k].pc = "done" THEN 1 ELSE 0)
        /\ calls[k].queried = activeBreakpoints
        /\ ~activeBreakpoints => calls[k].pc = "done"
        /\ \A i \in BackendOf(k) :
               /\ backend[i].method = "behavior.setPauseBreakpoints"
               /\ IF activeBreakpoints
                  THEN LET stored == calls[k].listing
                           sent == backend[i].params
                       IN  /\ Len(sent) = Len(stored)
                           /\ \A j \in 1..Len(stored) :
                                  /\ DOMAIN sent[j] = DOMAIN stored[j] \ {"breakpointId"}
                                  /\ \A f \in DOMAIN sent[j] : sent[j][f] = stored[j][f]
                  ELSE backend[i].params = <<>>

C13_Witness ==
    /\ activeBreakpoints
    /\ \E k \in UpdateBreakpointsCalls :
           /\ calls[k].pc = "done"
           /\ calls[k].listing = <<Breakpoint2, Breakpoint1>>
           /\ \E i \in BackendOf(k) :
                  backend[i] = [method |-> "behavior.setPauseBreakpoints",
                                params |-> << [url |-> "e.lua", lineNumber |-> 9],
                                              [url |-> "a.lua", lineNumber |-> 5] >>]

----------------------------------------------------------------------------
(* The event replay *)

\* the frontend messages call k has emitted, in emission order
SentSeq(k) ==
    LET at == SentByCall(k)
    IN  [j \in 1..Cardinality(at) |->
            frontend[CHOOSE i \in at : Cardinality({h \in at : h <= i}) = j]]

\* the stored events of one method, in stored order
StoredFor(method) == SelectSeq(StoredEvents, LAMBDA e : e.method = method)

\* C14: replayFrontendLogEvents sends the stored 'Log.entryAdded' events and
\* replayFrontendRuntimeEvents the stored 'Runtime.consoleAPICalled' events:
\* each event unmodified, in stored order, once, and nothing else.
C14_ReplayInOrder ==
    \A k \in 1..Len(calls) :
        /\ calls[k].op = "replayFrontendLogEvents" =>
               SentSeq(k) = (IF calls[k].pc = "done" THEN StoredFor("Log.entryAdded") ELSE <<>>)
        /\ calls[k].op = "replayFrontendRuntimeEvents" =>
               SentSeq(k) = (IF calls[k].pc = "done" THEN StoredFor("Runtime.consoleAPICalled")
                             ELSE <<>>)
        /\ calls[k].op \in ReplayOps => BackendOf(k) = {}

C14_Witness ==
    /\ Len(calls) = 2
    /\ calls[1].op = "replayFrontendRuntimeEvents" /\ calls[2].op = "replayFrontendLogEvents"
    /\ frontend = << [method |-> "Log.entryAdded", params |-> [entry |-> "first"]],
                     [method |-> "Log.entryAdded", params |-> [entry |-> "second"]],
                     [method |-> "Runtime.consoleAPICalled", params |-> [args |-> "print"]] >>

----------------------------------------------------------------------------
(* The script registry, continued *)

\* the Debugger.scriptParsed notifications, as positions of `frontend`
ScriptParsedAt == {i \in 1..Len(frontend) : frontendBy[i].by = "scriptParsed"}

\* the number of lines of a file content: one more than its line breaks
LineCount(content) == Cardinality({j \in 1..Len(content) : content[j] = "\n"}) + 1

\* the endLine the call that emitted the notification at i gave scriptParsed:
\* none for restorePause, the line count of the file for scriptParseProject,
\* its own argument for a call of scriptParsed
SuppliedEndLine(i, none) ==
    LET k == frontendBy[i].call
    IN  IF calls[k].op = "restorePause" THEN none
        ELSE IF calls[k].op = "scriptParseProject"
        THEN LineCount((CHOOSE e \in {ProjectA, ProjectE} :
                            ProjectScriptId(e) = frontend[i].params.scriptId).content)
        ELSE calls[k].endLine

\* C15 as stated: the notification carries endLine = 0 when scriptParsed was
\* called without an endLine, and the line count of the file when one was given.
C15_EndLineZeroByDefault ==
    \A i \in ScriptParsedAt : frontend[i].params.endLine = SuppliedEndLine(i, 0)

\* C15: the notification carries endLine = -1 when scriptParsed was called
\* without an endLine (as restorePause does), and the line count of the file
\* when one was given (as scriptParseProject does).
C15_EndLineMinusOneByDefault ==
    \A i \in ScriptParsedAt : frontend[i].params.endLine = SuppliedEndLine(i, -1)

C15_Witness ==
    \E i, j \in ScriptParsedAt :
        /\ calls[frontendBy[i].call].op = "restorePause"
        /\ frontend[i].params.endLine = -1
        /\ calls[frontendBy[j].call].op = "scriptParseProject"
        /\ frontend[j].params.scriptId = <<"@", ".", "/", "a.lua">>
        /\ frontend[j].params.endLine = 2

\* C16: scriptParsed called with an id that does not start with '@' emits
\* nothing and leaves scriptParsedFiles as it was; a pause whose stack holds
\* such frames still emits Debugger.paused with a call frame for each of them,
\* and no Debugger.scriptParsed for them.
C16_NonVirtualIgnored ==
    /\ \A id \in ScriptIds :
           ~IsVirtual(id) => id \notin scriptParsedFiles /\ ParsedAt(id) = {}
    /\ \A k \in 1..Len(calls) :
           (calls[k].op = "scriptParsed" /\ ~IsVirtual(calls[k].scriptId)) => SentByCall(k) = {}
    /\ \A i \in PausedAt :
           LET stack == PayloadStack(i)
               frames == frontend[i].params.callFrames
           IN  /\ Len(frames) = Len(stack) - Dropped(i)
               /\ \A j \in 1..Len(frames) :
                      ~IsVirtual(stack[j + Dropped(i)].file) =>
                          /\ frames[j].location.scriptId = stack[j + Dropped(i)].file
                          /\ frames[j].functionName = stack[j + Dropped(i)].func

C16_Witness ==
    /\ Len(calls) = 2
    /\ calls[1].op = "scriptParsed" /\ calls[1].scriptId = <<"=[C]">>
    /\ \E i \in PausedAt :
           /\ PayloadStack(i) = <<FrameC, FrameA>>
           /\ frontend[i].params.callFrames[1].location.scriptId = <<"=[C]">>
    /\ scriptParsedFiles = {<<"@", ".", "/", "a.lua">>}

----------------------------------------------------------------------------
(* The pause, continued *)

OwnCount(k) == Cardinality({c \in PauseCalls : c <= k})

\* the injectedScriptId values of the call frames of the Debugger.paused at i
InjectedScriptIds(i) ==
    {JSONNumber(frontend[i].params.callFrames[j].callFrameId, "injectedScriptId") :
        j \in 1..Len(frontend[i].params.callFrames)}

\* C18: two pause events never share an injectedScriptId: the call frames of
\* each Debugger.paused carry the counter value produced by the increment of
\* the call that emits it, also when a second restorePause starts while the
\* first is suspended at its await.
C18_OwnInjectedScriptId ==
    /\ \A i \in PausedAt : InjectedScriptIds(i) = {OwnCount(frontendBy[i].call)}
    /\ \A i, j \in PausedAt : i # j => InjectedScriptIds(i) \cap InjectedScriptIds(j) = {}

\* the payload leaves nothing in the working stack: no stacks, an empty stack,
\* or one host-VM frame
EmptyWorkingStack(payload) ==
    \/ "stacks" \notin DOMAIN payload
    \/ payload.stacks = <<>>
    \/ Len(payload.stacks) = 1 /\ HasHostVM(payload.stacks[1].file)

\* C19: when the working stack is empty after the shift (stacks absent, empty,
\* or a single host-VM frame), restorePause fails: it emits no Debugger.paused
\* and no Debugger.scriptParsed, yet its increment of frameScriptIdCount stays.
C19_EmptyStackFails ==
    \A k \in PauseCalls :
        EmptyWorkingStack(calls[k].payload) =>
            /\ SentByCall(k) = {}
            /\ calls[k].pc \in {"loop", "rejected"}
            /\ frameScriptIdCount >= OwnCount(k)

C19_Witness ==
    /\ Len(calls) = 1
    /\ calls[1].op = "restorePause" /\ calls[1].pc = "rejected"
    /\ calls[1].payload = [stacks |-> <<FrameH>>, step |-> "over"]
    /\ frontend = <<>>
    /\ frameScriptIdCount = 1

----------------------------------------------------------------------------
(* The pause composed with the scope and watch queries *)

\* the level a domain handler reads back from a scope objectId the frontend
\* returns to it
ObjectIdLevel(objectId) == JSONNumber(objectId, "level")

\* the Debugger.paused messages sent so far
PausedMessages ==
    {i \in 1..Len(frontend) : "method" \in DOMAIN frontend[i]
                                 /\ frontend[i].method = "Debugger.paused"}

\* the frontend asks for a scope of call frame j of the pause at i: the handler
\* calls getStackScope with the level of that scope's objectId
QueryScopeOfFrame(i, j, g) ==
    /\ i \in PausedMessages
    /\ j \in 1..Len(frontend[i].params.callFrames)
    /\ LET object == frontend[i].params.callFrames[j].scopeChain[g].object
       IN  GetStackScope(1, ObjectIdLevel(object.objectId), ScopeKeys,
                         IF g = 1 THEN "locals" ELSE "upvalues")

\* the frontend evaluates an expression on call frame j of the pause at i: the
\* handler calls getStackWatch with the level of the frame's scopes
QueryWatchOfFrame(i, j) ==
    /\ i \in PausedMessages
    /\ j \in 1..Len(frontend[i].params.callFrames)
    /\ LET object == frontend[i].params.callFrames[j].scopeChain[1].object
       IN  GetStackWatch(1, ObjectIdLevel(object.objectId), WatchCode)

\* one restorePause, then queries about the frames it has sent
NextScope ==
    \/ NextPause
    \/ \E i \in 1..MaxCalls * (MaxStack + 1), j \in 1..MaxStack, g \in 1..2 :
            QueryScopeOfFrame(i, j, g)
    \/ \E i \in 1..MaxCalls * (MaxStack + 1), j \in 1..MaxStack : QueryWatchOfFrame(i, j)

SpecScope == Init /\ [][NextScope]_vars

QueryCalls == {k \in 1..Len(calls) : calls[k].op \in {"getStackScope", "getStackWatch"}}

\* C20: for the frame at 0-based position p of the backend stack, the level in
\* both of its scope objectIds is p, whether or not a leading host-VM frame was
\* dropped, so that a scope or watch query made with that level sends the
\* backend the level p + 1, the 1-based index of the frame in the backend stack.
C20_BackendLevelIsPosition ==
    \A i \in PausedAt :
        \A j \in 1..Len(frontend[i].params.callFrames), g \in 1..2 :
            LET p == j - 1 + Dropped(i)
                level == JSONNumber(
                    frontend[i].params.callFrames[j].scopeChain[g].object.objectId, "level")
            IN  /\ frontend[i].params.callFrames[j].location.scriptId = PayloadStack(i)[p + 1].file
                /\ level = p
                /\ \A k \in QueryCalls :
                       calls[k].args[2] = level =>
                           \A b \in BackendOf(k) : backend[b].params.level = p + 1

C20_Witness ==
    /\ \E i \in PausedAt :
           /\ PayloadStack(i) = <<FrameH, FrameA, FrameC>>
           /\ frontend[i].params.callFrames[2].location.scriptId = <<"=[C]">>
    /\ \E k \in QueryCalls :
           /\ calls[k].op = "getStackWatch"
           /\ calls[k].args[2] = 2
           /\ \E b \in BackendOf(k) :
                  backend[b] = [method |-> "behavior.queryWatch",
                                params |-> [parrot |-> [id |-> 1], level |-> 3,
                                            code |-> "x + 1"]]

====
